---- MODULE Spec2Model ----
(***************************************************************************)
(* Model of the URA fungible token contract (uraft/ft/src/lib.rs).         *)
(*                                                                         *)
(* The contract is a thin wrapper: `Contract::new` plus the two macro      *)
(* invocations impl_fungible_token_core! and impl_fungible_token_storage!  *)
(* that forward every NEP-141 / NEP-145 entry point to the field `token`,  *)
(* a near_contract_standards::fungible_token::FungibleToken.  The          *)
(* definitions below follow the bodies those macros expand to and the      *)
(* FungibleToken methods they call.                                        *)
(*                                                                         *)
(* One action is one function call receipt executed by the host.  A panic  *)
(* aborts the receipt: the host discards every write of the call, so the   *)
(* action leaves the contract state as it was and only the outcome of the  *)
(* call (`last`, `logs`) tells what happened.                              *)
(***************************************************************************)
EXTENDS Integers, Sequences, FiniteSets, TLC

VARIABLES
    state_exists,   \* env::state_exists(): the Contract struct has been written
    accounts,       \* token.accounts: LookupMap<AccountId, Balance>
    total_supply,   \* token.total_supply
    promise,        \* the ft_transfer_call promise chain in flight, if any
    pre_call,       \* history: sender's and receiver's balance before that ft_transfer_call
    last,           \* outcome of the last executed call (and what the callback was given)
    logs            \* log lines / events written by the last executed call

vars == <<state_exists, accounts, total_supply, promise, pre_call, last, logs>>

ledger == <<accounts, total_supply>>

----------------------------------------------------------------------------
(* Bounds of the model *)

Width == 3
MaxSupply == 2

(* Balance is u128; the model keeps Width bits of it. *)
U128_MAX == 2^Width - 1

AccountIds == {"alice", "bob", "carol"}
NoAccount == "-"

(* Amounts a caller passes; a receiver may report more unused than it was sent. *)
Amounts == 0..MaxSupply
ReportedAmounts == 0..(MaxSupply + 1)

(* storage_balance_bounds().min = account_storage_usage * storage_byte_cost *)
StorageBalanceMin == 2

(* attached deposits tried for the calls guarded by assert_one_yocto *)
YoctoDeposits == {0, 1, 2}
StorageDeposits == 0..(StorageBalanceMin + 1)

(* <<attached deposit, prepaid gas above GAS_FOR_FT_TRANSFER_CALL>> for ft_transfer_call *)
CallAttachments == {<<d, TRUE>> : d \in YoctoDeposits} \cup {<<1, FALSE>>}

----------------------------------------------------------------------------
(* Outcomes *)

OK == [kind |-> "OK", account |-> NoAccount]
Err(kind) == [kind |-> kind, account |-> NoAccount]
ErrNotRegistered(account_id) == [kind |-> "NotRegistered", account |-> account_id]

Event(kind, a, b, amount) == [kind |-> kind, a |-> a, b |-> b, amount |-> amount]

(* The working copy of the contract state during one call. *)
Begin ==
    [accounts |-> accounts, total_supply |-> total_supply, logs |-> <<>>,
     err |-> OK, refund |-> 0, ret |-> 0,
     result |-> [kind |-> "None", value |-> 0], amount |-> 0]

Panic(c, e) == [c EXCEPT !.err = e]

Log(c, ev) == [c EXCEPT !.logs = Append(@, ev)]

Insert(m, k, v) == (k :> v) @@ m

Remove(m, k) == [x \in (DOMAIN m) \ {k} |-> m[x]]

RECURSIVE SumOver(_, _)
SumOver(m, S) ==
    IF S = {} THEN 0
    ELSE LET x == CHOOSE y \in S : TRUE IN m[x] + SumOver(m, S \ {x})

SumBalances(m) == SumOver(m, DOMAIN m)

----------------------------------------------------------------------------
(* FungibleToken primitives reached through the macros *)

ft_balance_of(account_id) ==
    IF account_id \in DOMAIN accounts THEN accounts[account_id] ELSE 0

ft_total_supply == total_supply

internal_register_account(c, account_id) ==
    IF c.err # OK THEN c
    ELSE IF account_id \in DOMAIN c.accounts THEN Panic(c, Err("AlreadyRegistered"))
    ELSE [c EXCEPT !.accounts = Insert(@, account_id, 0)]

(* internal_deposit that credits the account and leaves total_supply alone *)
internal_deposit_keeps_supply(c, account_id, amount) ==
    IF c.err # OK THEN c
    ELSE IF account_id \notin DOMAIN c.accounts THEN Panic(c, ErrNotRegistered(account_id))
    ELSE IF c.accounts[account_id] + amount > U128_MAX THEN Panic(c, Err("Overflow"))
    ELSE [c EXCEPT !.accounts[account_id] = @ + amount]

(* internal_deposit with wrapping additions *)
internal_deposit_wrapping(c, account_id, amount) ==
    IF c.err # OK THEN c
    ELSE IF account_id \notin DOMAIN c.accounts THEN Panic(c, ErrNotRegistered(account_id))
    ELSE [c EXCEPT !.accounts[account_id] = (@ + amount) % (2^Width),
                   !.total_supply = (@ + amount) % (2^Width)]

internal_deposit(c, account_id, amount) ==
    IF c.err # OK THEN c
    ELSE IF account_id \notin DOMAIN c.accounts THEN Panic(c, ErrNotRegistered(account_id))
    ELSE IF c.accounts[account_id] + amount > U128_MAX THEN Panic(c, Err("Overflow"))
    ELSE IF c.total_supply + amount > U128_MAX THEN Panic(c, Err("Overflow"))
    ELSE [c EXCEPT !.accounts[account_id] = @ + amount,
                   !.total_supply = @ + amount]

(* internal_withdraw that debits the account and leaves total_supply alone *)
internal_withdraw_keeps_supply(c, account_id, amount) ==
    IF c.err # OK THEN c
    ELSE IF account_id \notin DOMAIN c.accounts THEN Panic(c, ErrNotRegistered(account_id))
    ELSE IF amount > c.accounts[account_id] THEN Panic(c, Err("InsufficientBalance"))
    ELSE [c EXCEPT !.accounts[account_id] = @ - amount]

(* internal_withdraw that debits one unit less than asked *)
internal_withdraw_short(c, account_id, amount) ==
    IF c.err # OK THEN c
    ELSE IF account_id \notin DOMAIN c.accounts THEN Panic(c, ErrNotRegistered(account_id))
    ELSE IF amount > c.accounts[account_id] THEN Panic(c, Err("InsufficientBalance"))
    ELSE IF amount > c.total_supply THEN Panic(c, Err("Overflow"))
    ELSE [c EXCEPT !.accounts[account_id] = @ - (IF amount > 0 THEN amount - 1 ELSE 0),
                   !.total_supply = @ - (IF amount > 0 THEN amount - 1 ELSE 0)]

internal_withdraw(c, account_id, amount) ==
    IF c.err # OK THEN c
    ELSE IF account_id \notin DOMAIN c.accounts THEN Panic(c, ErrNotRegistered(account_id))
    ELSE IF amount > c.accounts[account_id] THEN Panic(c, Err("InsufficientBalance"))
    ELSE IF amount > c.total_supply THEN Panic(c, Err("Overflow"))
    ELSE [c EXCEPT !.accounts[account_id] = @ - amount,
                   !.total_supply = @ - amount]

(* internal_transfer without the require!(amount > 0) *)
internal_transfer_any_amount(c, sender_id, receiver_id, amount) ==
    IF c.err # OK THEN c
    ELSE IF sender_id = receiver_id THEN Panic(c, Err("SelfTransfer"))
    ELSE LET w == internal_withdraw(c, sender_id, amount)
             d == internal_deposit(w, receiver_id, amount)
         IN  IF d.err # OK THEN d
             ELSE Log(d, Event("FtTransfer", sender_id, receiver_id, amount))

internal_transfer(c, sender_id, receiver_id, amount) ==
    IF c.err # OK THEN c
    ELSE IF sender_id = receiver_id THEN Panic(c, Err("SelfTransfer"))
    ELSE IF ~(amount > 0) THEN Panic(c, Err("ZeroAmount"))
    ELSE LET w == internal_withdraw(c, sender_id, amount)
             d == internal_deposit(w, receiver_id, amount)
         IN  IF d.err # OK THEN d
             ELSE Log(d, Event("FtTransfer", sender_id, receiver_id, amount))

(* assert_one_yocto that accepts anything from one yoctoNEAR up *)
assert_one_yocto_or_more(c, deposit) ==
    IF c.err # OK THEN c
    ELSE IF deposit < 1 THEN Panic(c, Err("RequiresOneYocto"))
    ELSE c

assert_one_yocto(c, deposit) ==
    IF c.err # OK THEN c
    ELSE IF deposit # 1 THEN Panic(c, Err("RequiresOneYocto"))
    ELSE c

(* near_bindgen loads the state before any &self / &mut self method;
   PanicOnDefault makes that a panic while nothing has been written. *)
load_state(c) ==
    IF c.err # OK THEN c
    ELSE IF ~state_exists THEN Panic(c, Err("NotInitialized"))
    ELSE c

----------------------------------------------------------------------------
(* End of a call: commit the working copy, or roll back on a panic. *)

Outcome(op, c) ==
    [op |-> op, err |-> c.err, ret |-> c.ret, refund |-> c.refund,
     result |-> c.result, amount |-> c.amount]

Finish(op, end) ==
    \E c \in {end} :
        /\ last' = Outcome(op, IF c.err = OK THEN c ELSE [c EXCEPT !.ret = 0, !.refund = 0])
        /\ IF c.err = OK
           THEN /\ accounts' = c.accounts
                /\ total_supply' = c.total_supply
                /\ logs' = c.logs
           ELSE /\ UNCHANGED ledger
                /\ logs' = <<>>

----------------------------------------------------------------------------
(* The promise chain ft_transfer_call creates: ft_on_transfer on the receiver,
   then the callback ft_resolve_transfer(sender_id, receiver_id, amount).  The
   model follows one chain at a time. *)

NoPromise ==
    [stage |-> "Idle", sender_id |-> NoAccount, receiver_id |-> NoAccount, amount |-> 0]

Promise(sender_id, receiver_id, amount) ==
    [stage |-> "AwaitingReceiverAck", sender_id |-> sender_id,
     receiver_id |-> receiver_id, amount |-> amount]

(* env::promise_result(0) as the callback reads it; NoResult in every other call.
   An outcome keeps it, and the amount the callback was given, beside the return
   value. *)
NoResult == [kind |-> "None", value |-> 0]

(* History of the chain: the two balances read before ft_transfer_call, kept
   until the call after its resolution, for as long as no other call has changed
   the sender's or the receiver's entry. *)
Untracked == [sender |-> -1, receiver |-> -1]

Entry(m, account_id) == IF account_id \in DOMAIN m THEN m[account_id] ELSE -1

KeepHistory ==
    pre_call' = IF /\ promise.stage # "Idle"
                   /\ Entry(accounts', promise.sender_id) = Entry(accounts, promise.sender_id)
                   /\ Entry(accounts', promise.receiver_id) = Entry(accounts, promise.receiver_id)
                THEN pre_call
                ELSE Untracked

----------------------------------------------------------------------------
Init ==
    /\ state_exists = FALSE
    /\ accounts = << >>
    /\ total_supply = 0
    /\ promise = NoPromise
    /\ pre_call = Untracked
    /\ last = [op |-> "deploy", err |-> OK, ret |-> 0, refund |-> 0,
               result |-> NoResult, amount |-> 0]
    /\ logs = << >>

----------------------------------------------------------------------------
(* Contract::new (#[init], not payable) *)

(* new that does not look whether the state exists *)
new_again(owner_id, supply, deposit, metadata_valid) ==
    LET fresh == [Begin EXCEPT !.accounts = << >>, !.total_supply = 0]
        c1 == IF deposit # 0 THEN Panic(fresh, Err("DepositNotAccepted"))
              ELSE IF ~metadata_valid THEN Panic(fresh, Err("InvalidMetadata"))
              ELSE fresh
        c2 == internal_register_account(c1, owner_id)
        c3 == internal_deposit(c2, owner_id, supply)
        c4 == IF c3.err # OK THEN c3
              ELSE Log(c3, Event("FtMint", owner_id, NoAccount, supply))
    IN  /\ Finish("new", c4)
        /\ state_exists' = (state_exists \/ c4.err = OK)
        /\ KeepHistory
        /\ UNCHANGED promise

new(owner_id, supply, deposit, metadata_valid) ==
    LET fresh == [Begin EXCEPT !.accounts = << >>, !.total_supply = 0]
        c1 == IF deposit # 0 THEN Panic(fresh, Err("DepositNotAccepted"))
              ELSE IF state_exists THEN Panic(fresh, Err("AlreadyInitialized"))
              ELSE IF ~metadata_valid THEN Panic(fresh, Err("InvalidMetadata"))
              ELSE fresh
        c2 == internal_register_account(c1, owner_id)
        c3 == internal_deposit(c2, owner_id, supply)
        c4 == IF c3.err # OK THEN c3
              ELSE Log(c3, Event("FtMint", owner_id, NoAccount, supply))
    IN  /\ Finish("new", c4)
        /\ state_exists' = (state_exists \/ c4.err = OK)
        /\ KeepHistory
        /\ UNCHANGED promise

----------------------------------------------------------------------------
(* impl_fungible_token_core!(Contract, token, on_tokens_burned) *)

ft_transfer(sender_id, receiver_id, amount, deposit) ==
    LET c1 == load_state(Begin)
        c2 == assert_one_yocto(c1, deposit)
        c3 == internal_transfer(c2, sender_id, receiver_id, amount)
    IN  /\ Finish("ft_transfer", c3)
        /\ KeepHistory
        /\ UNCHANGED <<state_exists, promise>>

ft_transfer_call(sender_id, receiver_id, amount, deposit, enough_gas) ==
    LET c1 == load_state(Begin)
        c2 == assert_one_yocto(c1, deposit)
        c3 == IF c2.err = OK /\ ~enough_gas THEN Panic(c2, Err("MoreGasRequired")) ELSE c2
        c4 == internal_transfer(c3, sender_id, receiver_id, amount)
    IN  /\ promise.stage = "Idle"
        /\ Finish("ft_transfer_call", c4)
        /\ IF c4.err = OK
           THEN /\ promise' = Promise(sender_id, receiver_id, amount)
                /\ pre_call' = [sender |-> ft_balance_of(sender_id),
                                receiver |-> ft_balance_of(receiver_id)]
           ELSE UNCHANGED <<promise, pre_call>>
        /\ UNCHANGED state_exists

(* The receiver's ft_on_transfer has run to its end, or has failed; the host
   schedules the callback only then. *)
ft_on_transfer ==
    /\ promise.stage = "AwaitingReceiverAck"
    /\ promise' = [promise EXCEPT !.stage = "ReceiverDone"]
    /\ UNCHANGED <<state_exists, accounts, total_supply, pre_call, last, logs>>

(* What the callback finds in env::promise_result(0): the value ft_on_transfer
   returned (a U128, or bytes that do not parse as one, written -1), or Failed
   (a panic in the receiver, or the host's gas limit). *)
PromiseResults ==
    {[kind |-> "Successful", value |-> v] : v \in ReportedAmounts \cup {-1}}
        \cup {[kind |-> "Failed", value |-> 0]}

Min(a, b) == IF a < b THEN a ELSE b

(* unused_amount_of that takes a failed receiver call as nothing unused *)
unused_amount_of_failed_is_used(result, amount) ==
    IF result.kind = "Successful"
    THEN IF result.value >= 0 THEN Min(amount, result.value) ELSE amount
    ELSE 0

(* unused_amount_of that reads the returned value as the used amount *)
unused_amount_of_as_used(result, amount) ==
    IF result.kind = "Successful"
    THEN IF result.value >= 0 THEN amount - Min(amount, result.value) ELSE amount
    ELSE amount

(* the unused amount read from env::promise_result(0) *)
unused_amount_of(result, amount) ==
    IF result.kind = "Successful"
    THEN IF result.value >= 0 THEN Min(amount, result.value) ELSE amount
    ELSE amount

(* refund_amount_of without the clamp to what the receiver holds *)
refund_amount_unclamped(receiver_balance, unused_amount) == unused_amount

(* let refund_amount = std::cmp::min(receiver_balance, unused_amount) *)
refund_amount_of(receiver_balance, unused_amount) == Min(receiver_balance, unused_amount)

(* internal_ft_resolve_transfer that takes the part it cannot refund off
   total_supply *)
internal_ft_resolve_transfer_burns_shortfall(c, sender_id, receiver_id, amount, result) ==
    LET unused_amount == unused_amount_of(result, amount)
        receiver_balance == IF receiver_id \in DOMAIN c.accounts
                            THEN c.accounts[receiver_id] ELSE 0
        refund_amount == refund_amount_of(receiver_balance, unused_amount)
        shortfall == unused_amount - refund_amount
        taken == [c EXCEPT !.accounts[receiver_id] = receiver_balance - refund_amount,
                           !.total_supply = @ - Min(@, shortfall)]
    IN  IF c.err # OK THEN [c |-> c, burned |-> 0]
        ELSE IF unused_amount > 0 /\ receiver_balance > 0
        THEN IF sender_id \in DOMAIN c.accounts
             THEN [c |-> [Log([taken EXCEPT !.accounts[sender_id] = @ + refund_amount],
                              Event("FtTransfer", receiver_id, sender_id, refund_amount))
                          EXCEPT !.ret = amount - refund_amount],
                   burned |-> shortfall]
             ELSE [c |-> [Log(Log([taken EXCEPT !.total_supply = @ - refund_amount],
                                  Event("SenderDeleted", sender_id, NoAccount, 0)),
                              Event("FtBurn", receiver_id, NoAccount, refund_amount))
                          EXCEPT !.ret = amount],
                   burned |-> refund_amount]
        ELSE [c |-> [c EXCEPT !.ret = amount], burned |-> 0]

(* internal_ft_resolve_transfer that counts a refund to the sender as new supply *)
internal_ft_resolve_transfer_mints_refund(c, sender_id, receiver_id, amount, result) ==
    LET unused_amount == unused_amount_of(result, amount)
        receiver_balance == IF receiver_id \in DOMAIN c.accounts
                            THEN c.accounts[receiver_id] ELSE 0
        refund_amount == refund_amount_of(receiver_balance, unused_amount)
        taken == [c EXCEPT !.accounts[receiver_id] = receiver_balance - refund_amount]
    IN  IF c.err # OK THEN [c |-> c, burned |-> 0]
        ELSE IF unused_amount > 0 /\ receiver_balance > 0
        THEN IF sender_id \in DOMAIN c.accounts
             THEN IF taken.accounts[sender_id] + refund_amount > U128_MAX
                  THEN [c |-> Panic(c, Err("Overflow")), burned |-> 0]
                  ELSE [c |-> [Log([taken EXCEPT !.accounts[sender_id] = @ + refund_amount,
                                                !.total_supply = @ + refund_amount],
                                   Event("FtTransfer", receiver_id, sender_id, refund_amount))
                               EXCEPT !.ret = amount - refund_amount],
                        burned |-> 0]
             ELSE [c |-> [Log(Log([taken EXCEPT !.total_supply = @ - refund_amount],
                                  Event("SenderDeleted", sender_id, NoAccount, 0)),
                              Event("FtBurn", receiver_id, NoAccount, refund_amount))
                          EXCEPT !.ret = amount],
                   burned |-> refund_amount]
        ELSE [c |-> [c EXCEPT !.ret = amount], burned |-> 0]

(* FungibleToken::internal_ft_resolve_transfer; ret is used_amount, burned the
   second component of the pair it returns *)
internal_ft_resolve_transfer(c, sender_id, receiver_id, amount, result) ==
    LET unused_amount == unused_amount_of(result, amount)
        receiver_balance == IF receiver_id \in DOMAIN c.accounts
                            THEN c.accounts[receiver_id] ELSE 0
        refund_amount == refund_amount_of(receiver_balance, unused_amount)
        taken == [c EXCEPT !.accounts[receiver_id] = receiver_balance - refund_amount]
    IN  IF c.err # OK THEN [c |-> c, burned |-> 0]
        ELSE IF unused_amount > 0 /\ receiver_balance > 0
        THEN IF sender_id \in DOMAIN c.accounts
             THEN IF taken.accounts[sender_id] + refund_amount > U128_MAX
                  THEN [c |-> Panic(c, Err("Overflow")), burned |-> 0]
                  ELSE [c |-> [Log([taken EXCEPT !.accounts[sender_id] = @ + refund_amount],
                                   Event("FtTransfer", receiver_id, sender_id, refund_amount))
                               EXCEPT !.ret = amount - refund_amount],
                        burned |-> 0]
             ELSE [c |-> [Log(Log([taken EXCEPT !.total_supply = @ - refund_amount],
                                  Event("SenderDeleted", sender_id, NoAccount, 0)),
                              Event("FtBurn", receiver_id, NoAccount, refund_amount))
                          EXCEPT !.ret = amount],
                   burned |-> refund_amount]
        ELSE [c |-> [c EXCEPT !.ret = amount], burned |-> 0]

(* on_tokens_burned that reports nothing *)
on_tokens_burned_silent(c, account_id, amount) == c

on_tokens_burned(c, account_id, amount) ==
    Log(c, Event("Burned", account_id, NoAccount, amount))

(* ft_resolve_transfer that does not wait for the receiver's ft_on_transfer *)
ft_resolve_transfer_early(result) ==
    /\ promise.stage \in {"AwaitingReceiverAck", "ReceiverDone"}
    /\ LET r == internal_ft_resolve_transfer(
                    [load_state(Begin) EXCEPT !.result = result, !.amount = promise.amount],
                    promise.sender_id, promise.receiver_id, promise.amount, result)
           c == IF r.c.err = OK /\ r.burned > 0
                THEN on_tokens_burned(r.c, promise.sender_id, r.burned)
                ELSE r.c
       IN  Finish("ft_resolve_transfer", c)
    /\ promise' = NoPromise
    /\ UNCHANGED <<state_exists, pre_call>>

ft_resolve_transfer(result) ==
    /\ promise.stage = "ReceiverDone"
    /\ LET r == internal_ft_resolve_transfer([load_state(Begin) EXCEPT !.result = result,
                                                                       !.amount = promise.amount],
                                             promise.sender_id, promise.receiver_id,
                                             promise.amount, result)
           c == IF r.c.err = OK /\ r.burned > 0
                THEN on_tokens_burned(r.c, promise.sender_id, r.burned)
                ELSE r.c
       IN  Finish("ft_resolve_transfer", c)
    /\ promise' = NoPromise
    /\ UNCHANGED <<state_exists, pre_call>>

----------------------------------------------------------------------------
(* impl_fungible_token_storage!(Contract, token, on_account_closed) *)

(* storage_deposit that keeps the whole attached deposit of a registration *)
storage_deposit_keeps_deposit(predecessor, account_id, deposit) ==
    LET target == IF account_id = NoAccount THEN predecessor ELSE account_id
        c1 == load_state(Begin)
        c2 == IF c1.err # OK THEN c1
              ELSE IF target \in DOMAIN c1.accounts
              THEN [Log(c1, Event("AlreadyRegistered", target, NoAccount, 0))
                    EXCEPT !.refund = deposit]
              ELSE IF deposit < StorageBalanceMin
              THEN Panic(c1, Err("InsufficientStorageDeposit"))
              ELSE internal_register_account(c1, target)
    IN  /\ Finish("storage_deposit", c2)
        /\ KeepHistory
        /\ UNCHANGED <<state_exists, promise>>

storage_deposit(predecessor, account_id, deposit) ==
    LET target == IF account_id = NoAccount THEN predecessor ELSE account_id
        c1 == load_state(Begin)
        c2 == IF c1.err # OK THEN c1
              ELSE IF target \in DOMAIN c1.accounts
              THEN [Log(c1, Event("AlreadyRegistered", target, NoAccount, 0))
                    EXCEPT !.refund = deposit]
              ELSE IF deposit < StorageBalanceMin
              THEN Panic(c1, Err("InsufficientStorageDeposit"))
              ELSE [internal_register_account(c1, target)
                    EXCEPT !.refund = deposit - StorageBalanceMin]
    IN  /\ Finish("storage_deposit", c2)
        /\ KeepHistory
        /\ UNCHANGED <<state_exists, promise>>

Forces == {"unset", "false", "true"}

on_account_closed(c, account_id, balance) ==
    Log(c, Event("Closed", account_id, NoAccount, balance))

(* internal_storage_unregister that removes the entry and forgets the supply *)
internal_storage_unregister_keeps_supply(c, account_id, force, deposit) ==
    LET c1 == assert_one_yocto(c, deposit)
    IN  IF c1.err # OK THEN [c |-> c1, closed |-> FALSE, balance |-> 0]
        ELSE IF account_id \in DOMAIN c1.accounts
        THEN LET balance == c1.accounts[account_id]
             IN  IF balance = 0 \/ force = "true"
                 THEN [c |-> [c1 EXCEPT !.accounts = Remove(@, account_id),
                                        !.refund = StorageBalanceMin + 1,
                                        !.ret = 1],
                       closed |-> TRUE, balance |-> balance]
                 ELSE [c |-> Panic(c1, Err("NonZeroBalance")), closed |-> FALSE, balance |-> 0]
        ELSE [c |-> Log(c1, Event("NotRegistered", account_id, NoAccount, 0)),
              closed |-> FALSE, balance |-> 0]

(* internal_storage_unregister that does not look at force *)
internal_storage_unregister_always_forced(c, account_id, force, deposit) ==
    LET c1 == assert_one_yocto(c, deposit)
    IN  IF c1.err # OK THEN [c |-> c1, closed |-> FALSE, balance |-> 0]
        ELSE IF account_id \in DOMAIN c1.accounts
        THEN LET balance == c1.accounts[account_id]
             IN  [c |-> [c1 EXCEPT !.accounts = Remove(@, account_id),
                                   !.total_supply = @ - balance,
                                   !.refund = StorageBalanceMin + 1,
                                   !.ret = 1],
                  closed |-> TRUE, balance |-> balance]
        ELSE [c |-> Log(c1, Event("NotRegistered", account_id, NoAccount, 0)),
              closed |-> FALSE, balance |-> 0]

(* internal_storage_unregister that panics for an account without an entry *)
internal_storage_unregister_absent_panics(c, account_id, force, deposit) ==
    LET c1 == assert_one_yocto(c, deposit)
    IN  IF c1.err # OK THEN [c |-> c1, closed |-> FALSE, balance |-> 0]
        ELSE IF account_id \in DOMAIN c1.accounts
        THEN LET balance == c1.accounts[account_id]
             IN  IF balance = 0 \/ force = "true"
                 THEN [c |-> [c1 EXCEPT !.accounts = Remove(@, account_id),
                                        !.total_supply = @ - balance,
                                        !.refund = StorageBalanceMin + 1,
                                        !.ret = 1],
                       closed |-> TRUE, balance |-> balance]
                 ELSE [c |-> Panic(c1, Err("NonZeroBalance")), closed |-> FALSE, balance |-> 0]
        ELSE [c |-> Panic(c1, ErrNotRegistered(account_id)), closed |-> FALSE, balance |-> 0]

(* FungibleToken::internal_storage_unregister; closed tells whether it returned
   Some((account_id, balance)) *)
internal_storage_unregister(c, account_id, force, deposit) ==
    LET c1 == assert_one_yocto(c, deposit)
    IN  IF c1.err # OK THEN [c |-> c1, closed |-> FALSE, balance |-> 0]
        ELSE IF account_id \in DOMAIN c1.accounts
        THEN LET balance == c1.accounts[account_id]
             IN  IF balance = 0 \/ force = "true"
                 THEN [c |-> [c1 EXCEPT !.accounts = Remove(@, account_id),
                                        !.total_supply = @ - balance,
                                        !.refund = StorageBalanceMin + 1,
                                        !.ret = 1],
                       closed |-> TRUE, balance |-> balance]
                 ELSE [c |-> Panic(c1, Err("NonZeroBalance")), closed |-> FALSE, balance |-> 0]
        ELSE [c |-> Log(c1, Event("NotRegistered", account_id, NoAccount, 0)),
              closed |-> FALSE, balance |-> 0]

storage_unregister(predecessor, force, deposit) ==
    LET r == internal_storage_unregister(load_state(Begin), predecessor, force, deposit)
        c == IF r.closed THEN on_account_closed(r.c, predecessor, r.balance) ELSE r.c
    IN  /\ Finish("storage_unregister", c)
        /\ KeepHistory
        /\ UNCHANGED <<state_exists, promise>>

----------------------------------------------------------------------------
(* Inputs.  NewAttachments: <<attached deposit, metadata.assert_valid() passes>>. *)
NewAttachments == {<<0, TRUE>>, <<1, TRUE>>, <<0, FALSE>>}

(* Every call of the token, the transfer-and-call chain included, each made with
   the attachment it asks for (ft_transfer_call with every attachment). *)
Next ==
    \/ \E o \in AccountIds, s \in 0..MaxSupply : new(o, s, 0, TRUE)
    \/ \E s \in AccountIds, r \in AccountIds, a \in Amounts : ft_transfer(s, r, a, 1)
    \/ \E s \in AccountIds, r \in AccountIds, a \in Amounts, att \in CallAttachments :
          ft_transfer_call(s, r, a, att[1], att[2])
    \/ ft_on_transfer
    \/ \E res \in PromiseResults : ft_resolve_transfer(res)
    \/ \E p \in AccountIds, a \in AccountIds \cup {NoAccount},
          d \in {StorageBalanceMin - 1, StorageBalanceMin} :
          storage_deposit(p, a, d)
    \/ \E p \in AccountIds, f \in Forces : storage_unregister(p, f, 1)

Spec == Init /\ [][Next]_vars

(* The transfers with every attachment, the chain of ft_transfer_call included,
   on the ledgers that new and storage_deposit build. *)
NextAttached ==
    \/ \E o \in AccountIds : new(o, MaxSupply, 0, TRUE)
    \/ \E s \in AccountIds, r \in AccountIds, a \in Amounts, d \in YoctoDeposits :
          ft_transfer(s, r, a, d)
    \/ \E s \in AccountIds, r \in AccountIds, a \in Amounts, att \in CallAttachments :
          ft_transfer_call(s, r, a, att[1], att[2])
    \/ ft_on_transfer
    \/ \E res \in PromiseResults : ft_resolve_transfer(res)
    \/ \E p \in AccountIds : storage_deposit(p, NoAccount, StorageBalanceMin)

SpecAttached == Init /\ [][NextAttached]_vars

(* FungibleToken::internal_deposit on its own: every ledger of an initialized
   token whose balances add up to a total_supply within U128, and a deposit of
   any U128 amount to any account. *)
U128 == 0..U128_MAX

InitDeposit ==
    /\ state_exists = TRUE
    /\ total_supply \in U128
    /\ accounts \in UNION {[S -> U128] : S \in SUBSET AccountIds}
    /\ SumBalances(accounts) = total_supply
    /\ promise = NoPromise
    /\ pre_call = Untracked
    /\ last = [op |-> "deploy", err |-> OK, ret |-> 0, refund |-> 0,
               result |-> NoResult, amount |-> 0]
    /\ logs = << >>

deposit(account_id, amount) ==
    /\ Finish("internal_deposit", internal_deposit(load_state(Begin), account_id, amount))
    /\ KeepHistory
    /\ UNCHANGED <<state_exists, promise>>

NextDeposit == \E x \in AccountIds, n \in U128 : deposit(x, n)

SpecDeposit == InitDeposit /\ [][NextDeposit]_vars

(* Every call of the token, with the host delivering what a promise chain has
   pending: the receiver's ft_on_transfer runs, and after it the callback. *)
SpecFair ==
    /\ Spec
    /\ WF_vars(ft_on_transfer)
    /\ WF_vars(\E res \in PromiseResults : ft_resolve_transfer(res))

(* The synchronous calls alone, with every attachment. *)
NextLedger ==
    \/ \E o \in AccountIds, s \in 0..MaxSupply, att \in NewAttachments :
          new(o, s, att[1], att[2])
    \/ \E s \in AccountIds, r \in AccountIds, a \in Amounts, d \in YoctoDeposits :
          ft_transfer(s, r, a, d)
    \/ \E p \in AccountIds, a \in AccountIds \cup {NoAccount}, d \in StorageDeposits :
          storage_deposit(p, a, d)
    \/ \E p \in AccountIds, f \in Forces, d \in YoctoDeposits : storage_unregister(p, f, d)

SpecLedger == Init /\ [][NextLedger]_vars

----------------------------------------------------------------------------
(* Properties *)

Balance(m, account_id) == IF account_id \in DOMAIN m THEN m[account_id] ELSE 0

(* C1: conservation of supply.  After every call, failed ones included, the
   balances of the registered accounts add up to total_supply. *)
ConservationOfSupply == SumBalances(accounts) = total_supply

(* a refund taken back for a closed sender has been burned and tokens remain *)
ConservationOfSupply_Witness ==
    /\ last.op = "ft_resolve_transfer"
    /\ last.err = OK
    /\ \E i \in 1..Len(logs) : logs[i].kind = "FtBurn" /\ logs[i].amount > 0
    /\ total_supply > 0

(* C2: initialization.  A successful new(owner, S) leaves the owner registered
   with balance S, total_supply S, and every other account reading 0. *)
InitializationMints ==
    [][\A o \in AccountIds, S \in 0..MaxSupply, att \in NewAttachments :
          (last'.op = "new" /\ last'.err = OK /\ new(o, S, att[1], att[2]))
          => /\ o \in DOMAIN accounts'
             /\ ft_balance_of(o)' = S
             /\ ft_total_supply' = S
             /\ \A x \in AccountIds \ {o} : ft_balance_of(x)' = 0]_vars

InitializationMints_Witness ==
    /\ last.op = "new"
    /\ last.err = OK
    /\ total_supply = MaxSupply

(* C3: successful transfer.  With both accounts registered, sender # receiver
   and 0 < amount <= balance(sender), ft_transfer moves exactly amount from the
   sender to the receiver and changes nothing else: total_supply, the set of
   registered accounts and every other balance stay as they were. *)
SuccessfulTransfer ==
    [][\A s \in AccountIds, r \in AccountIds, a \in Amounts :
          ( /\ s \in DOMAIN accounts
            /\ r \in DOMAIN accounts
            /\ s # r
            /\ 0 < a
            /\ a <= accounts[s]
            /\ last'.op = "ft_transfer"
            /\ ft_transfer(s, r, a, 1) )
          => /\ last'.err = OK
             /\ accounts' = [accounts EXCEPT ![s] = @ - a, ![r] = @ + a]
             /\ total_supply' = total_supply]_vars

(* a transfer has succeeded while a third account held tokens *)
SuccessfulTransfer_Witness ==
    /\ last.op = "ft_transfer"
    /\ last.err = OK
    /\ \E x \in DOMAIN accounts :
          /\ accounts[x] > 0
          /\ \A i \in 1..Len(logs) : x # logs[i].a /\ x # logs[i].b

(* the outcome ft_transfer(sender, receiver, amount) has on a ledger, by the
   order in which the checks are made *)
TransferOutcome(s, r, a) ==
    IF s = r THEN Err("SelfTransfer")
    ELSE IF a = 0 THEN Err("ZeroAmount")
    ELSE IF s \notin DOMAIN accounts THEN ErrNotRegistered(s)
    ELSE IF a > accounts[s] THEN Err("InsufficientBalance")
    ELSE IF r \notin DOMAIN accounts THEN ErrNotRegistered(r)
    ELSE OK

(* C4, as amended: a transfer is rejected with SelfTransfer when sender =
   receiver; otherwise with ZeroAmount when amount = 0; otherwise with
   NotRegistered(sender) when the sender has no entry; otherwise with
   InsufficientBalance when amount > balance(sender); otherwise with
   NotRegistered(receiver) when the receiver has no entry.  A rejected transfer
   leaves every balance, the registered accounts and total_supply as they were. *)
RejectedTransfer ==
    [][\A s \in AccountIds, r \in AccountIds, a \in Amounts :
          (state_exists /\ last'.op = "ft_transfer" /\ ft_transfer(s, r, a, 1))
          => /\ last'.err = TransferOutcome(s, r, a)
             /\ (last'.err # OK => UNCHANGED ledger)]_vars

(* a transfer to an unregistered receiver was rejected after the sender had
   been found able to pay *)
RejectedTransfer_Witness ==
    /\ last.op = "ft_transfer"
    /\ last.err.kind = "NotRegistered"
    /\ last.err.account \notin DOMAIN accounts
    /\ \E x \in DOMAIN accounts : accounts[x] > 0

(* C4 as stated: each of the four conditions alone decides the error kind. *)
RejectedTransfer_AsStated ==
    [][\A s \in AccountIds, r \in AccountIds, a \in Amounts :
          (state_exists /\ last'.op = "ft_transfer" /\ ft_transfer(s, r, a, 1))
          => /\ (a = 0 => last'.err = Err("ZeroAmount"))
             /\ (s = r => last'.err = Err("SelfTransfer"))
             /\ (a > ft_balance_of(s) => last'.err = Err("InsufficientBalance"))
             /\ (r \notin DOMAIN accounts => last'.err = ErrNotRegistered(r))
             /\ ((a = 0 \/ s = r \/ a > ft_balance_of(s) \/ r \notin DOMAIN accounts)
                    => UNCHANGED ledger)]_vars

----------------------------------------------------------------------------
(* Properties of the transfer-and-call chain.  A step of the callback is told by
   last'.op; the chain it resolves is the one in `promise` before the step. *)

Resolves(res) ==
    /\ promise.stage = "ReceiverDone"
    /\ last'.op = "ft_resolve_transfer"
    /\ ft_resolve_transfer(res)

Reported(u) == [kind |-> "Successful", value |-> u]

Failed == [kind |-> "Failed", value |-> 0]

OthersUnchanged(S) == \A x \in AccountIds \ S : Entry(accounts', x) = Entry(accounts, x)

(* C5: a fully rejected transfer_call.  When the receiver reports the whole
   amount unused and no other call has changed the sender's or the receiver's
   balance since ft_transfer_call, the callback leaves both accounts with the
   balances they had before ft_transfer_call; neither ft_transfer_call nor the
   callback changes total_supply. *)
FullyRejectedTransferCall ==
    [][ /\ ( /\ pre_call # Untracked
             /\ Resolves(Reported(promise.amount)) )
           => /\ last'.err = OK
              /\ Entry(accounts', promise.sender_id) = pre_call.sender
              /\ Entry(accounts', promise.receiver_id) = pre_call.receiver
              /\ total_supply' = total_supply
        /\ (last'.op = "ft_transfer_call" /\ promise'.stage = "AwaitingReceiverAck"
               /\ promise.stage = "Idle")
           => /\ total_supply' = total_supply
              /\ pre_call'.sender = Entry(accounts, promise'.sender_id)
              /\ pre_call'.receiver = Entry(accounts, promise'.receiver_id)
              /\ pre_call'.sender >= promise'.amount ]_vars

(* the whole amount came back to a sender whose balance nobody else had touched *)
FullyRejectedTransferCall_Witness ==
    /\ last.op = "ft_resolve_transfer"
    /\ last.err = OK
    /\ pre_call # Untracked
    /\ last.result = Reported(last.amount)
    /\ last.ret = 0
    /\ Len(logs) = 1 /\ logs[1].kind = "FtTransfer" /\ logs[1].amount = last.amount

(* C6: the clamped refund.  For every reported unused amount u and receiver
   balance r at resolution, with the sender still registered, the callback moves
   exactly min(u, amount, r) from the receiver to the sender and changes
   nothing else; the refund is at most amount and the receiver's balance stays
   at or above zero. *)
ClampedRefund ==
    [][\A u \in ReportedAmounts :
          ( /\ promise.sender_id \in DOMAIN accounts
            /\ Resolves(Reported(u)) )
          => LET r == Balance(accounts, promise.receiver_id)
                 x == Min(Min(u, promise.amount), r)
             IN  /\ last'.err = OK
                 /\ Balance(accounts', promise.receiver_id) = r - x
                 /\ Balance(accounts', promise.receiver_id) >= 0
                 /\ accounts'[promise.sender_id] = accounts[promise.sender_id] + x
                 /\ x <= promise.amount
                 /\ DOMAIN accounts' = DOMAIN accounts
                 /\ OthersUnchanged({promise.sender_id, promise.receiver_id})
                 /\ total_supply' = total_supply
                 /\ last'.ret = promise.amount - x]_vars

(* a refund smaller than both the reported unused amount and the amount sent:
   the receiver had moved part of it away *)
ClampedRefund_Witness ==
    /\ last.op = "ft_resolve_transfer"
    /\ last.err = OK
    /\ last.result.kind = "Successful"
    /\ Len(logs) = 1 /\ logs[1].kind = "FtTransfer"
    /\ 0 < logs[1].amount
    /\ logs[1].amount < last.result.value
    /\ logs[1].amount < last.amount

(* C7, as amended: when the receiver holds less than the unused amount, the
   callback takes back only what the receiver holds.  A sender that is still
   registered is credited that much and total_supply stays as it was: the
   shortfall is neither refunded nor burned.  For a sender whose account was
   closed, what is taken back is burned: total_supply decreases by the amount
   taken back, never by the shortfall.  No balance is created either way. *)
ClampWithoutBurn ==
    [][\A res \in PromiseResults :
          ( /\ Balance(accounts, promise.receiver_id)
                   < unused_amount_of(res, promise.amount)
            /\ Resolves(res) )
          => LET r == Balance(accounts, promise.receiver_id)
             IN  /\ last'.err = OK
                 /\ Balance(accounts', promise.receiver_id) = 0
                 /\ DOMAIN accounts' = DOMAIN accounts
                 /\ OthersUnchanged({promise.sender_id, promise.receiver_id})
                 /\ IF promise.sender_id \in DOMAIN accounts
                    THEN /\ accounts'[promise.sender_id] = accounts[promise.sender_id] + r
                         /\ total_supply' = total_supply
                    ELSE total_supply' = total_supply - r
                 /\ SumBalances(accounts') = total_supply']_vars

(* a still-registered sender got back less than was unused *)
ClampWithoutBurn_Witness ==
    /\ last.op = "ft_resolve_transfer"
    /\ last.err = OK
    /\ Len(logs) = 1 /\ logs[1].kind = "FtTransfer"
    /\ 0 < logs[1].amount
    /\ logs[1].amount < unused_amount_of(last.result, last.amount)

(* C7 as stated: the shortfall (unused amount minus the amount refunded) is
   taken off total_supply. *)
ClampAndBurn_AsStated ==
    [][\A res \in PromiseResults :
          ( /\ Balance(accounts, promise.receiver_id)
                   < unused_amount_of(res, promise.amount)
            /\ promise.sender_id \in DOMAIN accounts
            /\ Resolves(res) )
          => LET r == Balance(accounts, promise.receiver_id)
                 shortfall == unused_amount_of(res, promise.amount) - r
             IN  /\ accounts'[promise.sender_id] = accounts[promise.sender_id] + r
                 /\ total_supply' = total_supply - shortfall]_vars

(* C8: a failed receiver call is a full refund.  When the receiver's call
   failed, the callback does not fail; it takes min(amount, receiver's balance)
   from the receiver and hands it to the sender (burns it if the sender's
   account was closed), and leaves the ledger exactly as a reported unused
   amount equal to amount would. *)
ReceiverFailureRefunds ==
    [][Resolves(Failed)
          => LET r == Balance(accounts, promise.receiver_id)
                 x == Min(promise.amount, r)
                 same == internal_ft_resolve_transfer(Begin, promise.sender_id,
                             promise.receiver_id, promise.amount,
                             Reported(promise.amount))
             IN  /\ last'.err = OK
                 /\ Balance(accounts', promise.receiver_id) = r - x
                 /\ IF promise.sender_id \in DOMAIN accounts
                    THEN /\ accounts'[promise.sender_id] = accounts[promise.sender_id] + x
                         /\ total_supply' = total_supply
                    ELSE total_supply' = total_supply - x
                 /\ OthersUnchanged({promise.sender_id, promise.receiver_id})
                 /\ accounts' = same.c.accounts
                 /\ total_supply' = same.c.total_supply
                 /\ last'.ret = same.c.ret]_vars

(* the receiver's call failed and the sender got tokens back *)
ReceiverFailureRefunds_Witness ==
    /\ last.op = "ft_resolve_transfer"
    /\ last.err = OK
    /\ last.result = Failed
    /\ Len(logs) = 1 /\ logs[1].kind = "FtTransfer" /\ logs[1].amount > 0

----------------------------------------------------------------------------
(* Properties of storage_unregister *)

(* C9: a forced unregister burns.  storage_unregister(force = true) by a
   registered account with balance b > 0 removes its entry, takes b off
   total_supply, leaves every other entry alone, and on_account_closed logs the
   closed account with the balance b that was burned. *)
ForcedUnregisterBurns ==
    [][\A p \in AccountIds :
          ( /\ p \in DOMAIN accounts
            /\ accounts[p] > 0
            /\ last'.op = "storage_unregister"
            /\ storage_unregister(p, "true", 1) )
          => /\ last'.err = OK
             /\ accounts' = Remove(accounts, p)
             /\ total_supply' = total_supply - accounts[p]
             /\ logs' = <<Event("Closed", p, NoAccount, accounts[p])>>]_vars

(* an account was closed with tokens in it while another account held tokens *)
ForcedUnregisterBurns_Witness ==
    /\ last.op = "storage_unregister"
    /\ last.err = OK
    /\ Len(logs) = 1 /\ logs[1].kind = "Closed" /\ logs[1].amount > 0
    /\ \E x \in DOMAIN accounts : accounts[x] > 0

(* C10: an unforced unregister protects balances.  With force unset or false,
   storage_unregister by an account with a nonzero balance fails (with
   NonZeroBalance when the one yoctoNEAR is attached) and changes nothing; by
   an account with balance zero it removes the entry and leaves total_supply
   and every other entry as they were. *)
UnforcedUnregisterProtects ==
    [][\A p \in AccountIds, f \in {"unset", "false"}, d \in YoctoDeposits :
          ( /\ p \in DOMAIN accounts
            /\ last'.op = "storage_unregister"
            /\ storage_unregister(p, f, d) )
          => IF accounts[p] > 0
             THEN /\ last'.err # OK
                  /\ (d = 1 => last'.err = Err("NonZeroBalance"))
                  /\ UNCHANGED ledger
             ELSE d = 1 => /\ last'.err = OK
                           /\ accounts' = Remove(accounts, p)
                           /\ total_supply' = total_supply]_vars

(* an unforced unregister was refused because of the balance *)
UnforcedUnregisterProtects_Witness ==
    /\ last.op = "storage_unregister"
    /\ last.err = Err("NonZeroBalance")
    /\ Cardinality(DOMAIN accounts) > 1

----------------------------------------------------------------------------
(* Properties of storage_deposit *)

(* C11: registration by storage_deposit.  On an initialized contract, for a
   target account without an entry, storage_deposit with an attached deposit
   of at least the minimum registers the target with balance 0, sends back the
   deposit less the minimum, and changes neither total_supply nor any other
   entry; with a smaller deposit it fails with InsufficientStorageDeposit,
   registers nothing and the contract keeps nothing of the failed call. *)
StorageDepositRegisters ==
    [][\A p \in AccountIds, a \in AccountIds \cup {NoAccount}, d \in StorageDeposits :
          LET target == IF a = NoAccount THEN p ELSE a
          IN  ( /\ state_exists
                /\ target \notin DOMAIN accounts
                /\ last'.op = "storage_deposit"
                /\ storage_deposit(p, a, d) )
              => IF d >= StorageBalanceMin
                 THEN /\ last'.err = OK
                      /\ accounts' = Insert(accounts, target, 0)
                      /\ total_supply' = total_supply
                      /\ last'.refund = d - StorageBalanceMin
                 ELSE /\ last'.err = Err("InsufficientStorageDeposit")
                      /\ UNCHANGED ledger
                      /\ last'.refund = 0]_vars

(* an account was registered with more than the minimum attached, beside an
   account that holds tokens *)
StorageDepositRegisters_Witness ==
    /\ last.op = "storage_deposit"
    /\ last.err = OK
    /\ last.refund = 1
    /\ logs = << >>
    /\ \E x \in DOMAIN accounts : accounts[x] = 0
    /\ total_supply > 0

----------------------------------------------------------------------------
(* Properties of new, after the first *)

(* C12: initialization is one-time.  Once the state exists, new with any owner,
   supply or metadata fails, with AlreadyInitialized when nothing is attached
   to the call, and leaves the balances, the registered accounts and
   total_supply as they were; it mints nothing and logs nothing. *)
InitializeOnce ==
    [][\A o \in AccountIds, S \in 0..MaxSupply, att \in NewAttachments :
          (state_exists /\ last'.op = "new" /\ new(o, S, att[1], att[2]))
          => /\ last'.err # OK
             /\ (att[1] = 0 => last'.err = Err("AlreadyInitialized"))
             /\ UNCHANGED ledger
             /\ logs' = << >>
             /\ state_exists']_vars

(* a second new was refused on a ledger that holds tokens in two accounts *)
InitializeOnce_Witness ==
    /\ last.op = "new"
    /\ last.err = Err("AlreadyInitialized")
    /\ \E x \in DOMAIN accounts, y \in DOMAIN accounts :
          x # y /\ accounts[x] > 0 /\ accounts[y] > 0

----------------------------------------------------------------------------
(* Properties of assert_one_yocto *)

(* C13: the one-yoctoNEAR guard.  In every state the token reaches,
   ft_transfer and ft_transfer_call with
   anything but exactly one yoctoNEAR attached (nothing, or more than one) are
   rejected, on an initialized contract with RequiresOneYocto, and change no
   balance, no registration, not total_supply, and start no promise chain; so
   either call succeeds only with exactly one yoctoNEAR attached.  With one
   yoctoNEAR (and the gas, for ft_transfer_call) the outcome is that of the
   transfer itself. *)
OneYoctoGuard ==
    \A s \in AccountIds, r \in AccountIds, a \in Amounts :
        /\ \A d \in YoctoDeposits :
              ~ ENABLED ( /\ ft_transfer(s, r, a, d)
                          /\ ~ IF d # 1
                               THEN /\ last'.err # OK
                                    /\ (state_exists => last'.err = Err("RequiresOneYocto"))
                                    /\ UNCHANGED ledger
                               ELSE state_exists => last'.err = TransferOutcome(s, r, a) )
        /\ \A att \in CallAttachments :
              ~ ENABLED ( /\ ft_transfer_call(s, r, a, att[1], att[2])
                          /\ ~ IF att[1] # 1
                               THEN /\ last'.err # OK
                                    /\ (state_exists => last'.err = Err("RequiresOneYocto"))
                                    /\ UNCHANGED <<ledger, promise>>
                               ELSE (state_exists /\ att[2])
                                    => last'.err = TransferOutcome(s, r, a) )

(* ft_transfer_call was refused for its attachment on a ledger where a transfer
   between two registered accounts was possible *)
OneYoctoGuard_Witness ==
    /\ last.op = "ft_transfer_call"
    /\ last.err = Err("RequiresOneYocto")
    /\ Cardinality(DOMAIN accounts) > 1
    /\ total_supply > 0

----------------------------------------------------------------------------
(* Properties of total_supply over the calls *)

(* the call that ended last logged a record of kind k for amount n *)
Logged(k, n) == \E i \in 1..Len(logs) : logs[i].kind = k /\ logs[i].amount = n

(* C14: total supply never grows after initialization.  Once the state exists,
   no call leaves total_supply higher than it found it; storage_deposit,
   ft_transfer and ft_transfer_call leave it as it was; and when it falls, the
   call was a storage_unregister that closed an account holding the difference,
   or an ft_resolve_transfer that burned the difference. *)
SupplyNeverGrows ==
    [][state_exists
         => /\ total_supply' <= total_supply
            /\ (last'.op \in {"storage_deposit", "ft_transfer", "ft_transfer_call"}
                  => total_supply' = total_supply)
            /\ (total_supply' < total_supply
                  => \/ /\ last'.op = "storage_unregister"
                        /\ \E i \in 1..Len(logs') :
                              /\ logs'[i].kind = "Closed"
                              /\ logs'[i].amount = total_supply - total_supply'
                     \/ /\ last'.op = "ft_resolve_transfer"
                        /\ \E i \in 1..Len(logs') :
                              /\ logs'[i].kind = "FtBurn"
                              /\ logs'[i].amount = total_supply - total_supply')]_vars

(* a burn in ft_resolve_transfer has lowered the supply of a ledger that still
   holds tokens *)
SupplyNeverGrows_Witness ==
    /\ last.op = "ft_resolve_transfer"
    /\ \E n \in 1..MaxSupply : Logged("FtBurn", n)
    /\ total_supply > 0
    /\ total_supply < MaxSupply

----------------------------------------------------------------------------
(* Properties of storage_unregister by an account without an entry *)

(* C15, as amended: unregistering an absent account changes nothing and is not
   an error.  On an initialized contract, storage_unregister (with any force
   value, one yoctoNEAR attached) by an account without an entry completes,
   returns false, logs that the account is not registered, pays nothing out
   and leaves the ledger as it was; without the one yoctoNEAR it fails with
   RequiresOneYocto, the ledger again unchanged. *)
UnregisterAbsentReturnsFalse ==
    [][\A p \in AccountIds, f \in Forces, d \in YoctoDeposits :
          ( /\ state_exists
            /\ p \notin DOMAIN accounts
            /\ last'.op = "storage_unregister"
            /\ storage_unregister(p, f, d) )
          => /\ UNCHANGED ledger
             /\ IF d = 1
                THEN /\ last'.err = OK
                     /\ last'.ret = 0
                     /\ last'.refund = 0
                     /\ logs' = <<Event("NotRegistered", p, NoAccount, 0)>>
                ELSE last'.err = Err("RequiresOneYocto")]_vars

(* an account without an entry called storage_unregister on a ledger that
   holds tokens, and the call completed *)
UnregisterAbsentReturnsFalse_Witness ==
    /\ last.op = "storage_unregister"
    /\ last.err = OK
    /\ last.ret = 0
    /\ Len(logs) = 1
    /\ logs[1].kind = "NotRegistered"
    /\ logs[1].a \notin DOMAIN accounts
    /\ total_supply > 0

(* C15 as stated: storage_unregister by an account without an entry fails with
   NotRegistered and leaves the state unchanged. *)
UnregisterAbsentFails_AsStated ==
    [][\A p \in AccountIds, f \in Forces :
          ( /\ state_exists
            /\ p \notin DOMAIN accounts
            /\ last'.op = "storage_unregister"
            /\ storage_unregister(p, f, 1) )
          => /\ last'.err = ErrNotRegistered(p)
             /\ UNCHANGED ledger]_vars

----------------------------------------------------------------------------
(* Properties of internal_deposit *)

(* C16: checked arithmetic on deposit.  With balances of Width bits, a deposit
   to a registered account that would take the account's balance or
   total_supply above 2^Width - 1 fails with Overflow and leaves the balance
   and total_supply as they were; any other deposit adds the amount to both;
   and what is stored never exceeds 2^Width - 1, so it is never a wrapped
   value. *)
CheckedDeposit ==
    [][\A x \in AccountIds, n \in U128 :
          ( /\ x \in DOMAIN accounts
            /\ last'.op = "internal_deposit"
            /\ deposit(x, n) )
          => /\ IF accounts[x] + n > 2^Width - 1 \/ total_supply + n > 2^Width - 1
                THEN /\ last'.err = Err("Overflow")
                     /\ UNCHANGED ledger
                ELSE /\ last'.err = OK
                     /\ accounts' = [accounts EXCEPT ![x] = @ + n]
                     /\ total_supply' = total_supply + n
             /\ total_supply' \in U128
             /\ \A y \in DOMAIN accounts' : accounts'[y] \in U128]_vars

(* a deposit was refused on a ledger where total_supply stands at the limit
   and no balance does *)
CheckedDeposit_Witness ==
    /\ last.op = "internal_deposit"
    /\ last.err = Err("Overflow")
    /\ total_supply = U128_MAX
    /\ \E x \in DOMAIN accounts, y \in DOMAIN accounts :
          x # y /\ accounts[x] > 0 /\ accounts[y] > 0

----------------------------------------------------------------------------
(* Properties of the promise chain *)

(* one step of a chain, by the stage it leaves and the stage it enters *)
StageOrder ==
    /\ promise'.stage # promise.stage
         => \/ /\ promise.stage = "Idle"
               /\ promise'.stage = "AwaitingReceiverAck"
               /\ last'.op = "ft_transfer_call"
               /\ last'.err = OK
               /\ logs' = <<Event("FtTransfer", promise'.sender_id,
                                  promise'.receiver_id, promise'.amount)>>
               /\ accounts'[promise'.receiver_id]
                     = accounts[promise'.receiver_id] + promise'.amount
            \/ /\ promise.stage = "AwaitingReceiverAck"
               /\ promise' = [promise EXCEPT !.stage = "ReceiverDone"]
               /\ UNCHANGED <<ledger, last>>
            \/ /\ promise.stage = "ReceiverDone"
               /\ promise' = NoPromise
               /\ last'.op = "ft_resolve_transfer"
    /\ promise'.stage = promise.stage => promise' = promise
    /\ (last' # last /\ last'.op = "ft_resolve_transfer")
         => promise.stage = "ReceiverDone" /\ promise' = NoPromise

(* C17: ordering of the transfer-and-call protocol.  A chain starts from Idle
   with the amount moved to the receiver in the same call that creates the
   promise, waits for the receiver, and is resolved, in that order, no stage
   skipped or revisited; ft_resolve_transfer runs only once the receiver's
   ft_on_transfer has completed or failed, and ends the chain, so it runs at
   most once per ft_transfer_call; and with the host delivering the pending
   calls, every chain that waits for the receiver is resolved in the end. *)
TransferCallOrdering ==
    /\ [][StageOrder]_vars
    /\ (promise.stage = "AwaitingReceiverAck")
          ~> (promise.stage = "Idle" /\ last.op = "ft_resolve_transfer")

(* a chain has run through to its resolution, part of the amount refunded *)
TransferCallOrdering_Witness ==
    /\ promise.stage = "Idle"
    /\ last.op = "ft_resolve_transfer"
    /\ last.err = OK
    /\ 0 < last.ret
    /\ last.ret < last.amount

----------------------------------------------------------------------------
(* Properties of the storage payments *)

(* C18 as stated: no unpaid storage.  A call that adds a ledger entry, new
   included, succeeds only with an attached deposit of at least the minimum
   storage balance; ft_transfer and storage_unregister add no entry. *)
NoUnpaidStorage ==
    [][/\ \A o \in AccountIds, S \in 0..MaxSupply, att \in NewAttachments :
             (last'.op = "new" /\ new(o, S, att[1], att[2]))
             => (DOMAIN accounts' # DOMAIN accounts => att[1] >= StorageBalanceMin)
       /\ \A p \in AccountIds, a \in AccountIds \cup {NoAccount}, d \in StorageDeposits :
             (last'.op = "storage_deposit" /\ storage_deposit(p, a, d))
             => (DOMAIN accounts' # DOMAIN accounts => d >= StorageBalanceMin)
       /\ (last'.op \in {"ft_transfer", "storage_unregister"})
             => DOMAIN accounts' \subseteq DOMAIN accounts]_vars

----------------------------------------------------------------------------
(* Properties of the events *)

(* the events among the log lines of a call: what FtMint, FtTransfer and FtBurn
   emit; the other lines are plain log! output *)
EventKinds == {"FtMint", "FtTransfer", "FtBurn"}

IsEvent(line) == line.kind \in EventKinds

(* a step in which a call of the token ended *)
CallEnded == last' # last \/ accounts' # accounts \/ total_supply' # total_supply

(* C19 as stated: event discipline.  A call that fails leaves no line in the
   log.  A successful new emits exactly one FtMint, for the owner and
   total_supply, with the owner's balance credited.  Any other call that
   lowers total_supply emits exactly one FtBurn for the amount burned; one that
   moves balances emits exactly one FtTransfer for the two accounts and the
   amount moved; one that does neither emits no event. *)
EventDiscipline ==
    [][CallEnded
         => LET events == SelectSeq(logs', IsEvent)
            IN  /\ last'.err # OK => logs' = << >>
                /\ (last'.op = "new" /\ last'.err = OK)
                      => \E o \in DOMAIN accounts' :
                            /\ events = <<Event("FtMint", o, NoAccount, total_supply')>>
                            /\ accounts'[o] = total_supply'
                /\ last'.op # "new"
                      => IF total_supply' < total_supply
                         THEN \E x \in AccountIds :
                                 events = <<Event("FtBurn", x, NoAccount,
                                                  total_supply - total_supply')>>
                         ELSE IF \E x \in DOMAIN accounts \cap DOMAIN accounts' :
                                    accounts'[x] # accounts[x]
                         THEN \E a \in DOMAIN accounts, b \in DOMAIN accounts,
                                 n \in 1..U128_MAX :
                                 /\ events = <<Event("FtTransfer", a, b, n)>>
                                 /\ accounts'[a] = accounts[a] - n
                                 /\ accounts'[b] = accounts[b] + n
                         ELSE events = << >>]_vars

----------------------------------------------------------------------------
(* Properties of ft_resolve_transfer after the sender has closed its account *)

(* what the receiver gives back: the unused amount the promise result reports
   (the whole amount when the receiver failed or returned no amount), at most
   the amount sent and at most the receiver's balance *)
TakenBack(res) ==
    LET unused == IF res.kind = "Successful" /\ res.value >= 0 /\ res.value < promise.amount
                  THEN res.value
                  ELSE promise.amount
        held == Balance(accounts, promise.receiver_id)
    IN  IF unused < held THEN unused ELSE held

(* C20: the sender unregisters between ft_transfer_call and its resolution.
   ft_resolve_transfer then creates no entry for the sender and leaves the set
   of registered accounts as it was; what it takes back from the receiver is
   burned: total_supply falls by exactly that amount, on_tokens_burned reports
   it for the sender, and the balances still add up to total_supply. *)
ResolveAfterSenderClosed ==
    [][\A res \in PromiseResults :
          (promise.sender_id \notin DOMAIN accounts /\ Resolves(res))
          => /\ last'.err = OK
             /\ DOMAIN accounts' = DOMAIN accounts
             /\ \A x \in DOMAIN accounts :
                   accounts'[x] = accounts[x]
                                  - (IF x = promise.receiver_id THEN TakenBack(res) ELSE 0)
             /\ total_supply' = total_supply - TakenBack(res)
             /\ SumBalances(accounts') = total_supply'
             /\ IF TakenBack(res) > 0
                THEN /\ Len(logs') > 0
                     /\ logs'[Len(logs')]
                           = Event("Burned", promise.sender_id, NoAccount, TakenBack(res))
                ELSE logs' = << >>]_vars

(* a refund was burned for a sender that had closed its account, and the
   receiver kept part of what it was sent *)
ResolveAfterSenderClosed_Witness ==
    /\ last.op = "ft_resolve_transfer"
    /\ last.err = OK
    /\ \E i \in 1..Len(logs) :
          /\ logs[i].kind = "Burned"
          /\ logs[i].amount > 0
          /\ logs[i].amount < last.amount
          /\ logs[i].a \notin DOMAIN accounts
    /\ total_supply > 0

====
